---- MODULE Spec2Model ----
(***************************************************************************)
(* Container selection and usage aggregation engine of wwenrr/web-flow     *)
(* (src/workflows/package_optimizing).                                     *)
(*                                                                         *)
(* Numbers.  Python floats are modelled by integers.  Lengths are held in  *)
(* tenths of a centimetre and weights in milligrams, so that the unit      *)
(* conversions of build_items_from_order (mm -> cm is /10, mg -> g is      *)
(* /1000) are exact.  A catalog record gives centimetres, so a Bin holds   *)
(* LenScale times the record's number.  float("inf") is the value INF,     *)
(* above every finite length, weight and volume of the model.             *)
(* JSON scalars are records [t, v]: t is "num", "none" (null or missing),  *)
(* "str" (a string that is no number), "numstr" (a string that spells the  *)
(* number v) or "inf".                                                     *)
(***************************************************************************)
EXTENDS Integers, Sequences, FiniteSets, TLC

\* ------------------------------------------------------------------ bounds
MaxSizes == 3
MaxOrders == 3
MaxCap == 3
MaxSummaries == 4
MaxLines == 2
MaxStats == 3
MaxConstructions == 3

\* ------------------------------------------------------- program constants
LenScale == 10
GramScale == 1000
DefaultMaxWeight == 100000
INF == 1000000
\* Decimal(v).quantize(Decimal("1.000")) raises InvalidOperation when the
\* result needs more than the 28 digits of the context, that is for v of
\* 10^25 and more.  The lengths of the model are scaled down: a side of
\* DecimalLimit (50 cm in tenths) stands for a side of 10^25.
DecimalLimit == 500

\* ------------------------------------------------------------ JSON scalars
Num(n) == [t |-> "num", v |-> n]
NumStr(n) == [t |-> "numstr", v |-> n]
JNone == [t |-> "none", v |-> 0]
JStr == [t |-> "str", v |-> 0]
JInf == [t |-> "inf", v |-> 0]
None == "None"

\* float(x): "ok" with the value, or the exception raised
ToFloat(x) ==
  CASE x.t = "num" -> [ok |-> TRUE, v |-> x.v, exc |-> ""]
    [] x.t = "numstr" -> [ok |-> TRUE, v |-> x.v, exc |-> ""]
    [] x.t = "inf" -> [ok |-> TRUE, v |-> INF, exc |-> ""]
    [] x.t = "str" -> [ok |-> FALSE, v |-> 0, exc |-> "ValueError"]
    [] OTHER -> [ok |-> FALSE, v |-> 0, exc |-> "TypeError"]

\* int(x)
ToInt(x) ==
  CASE x.t = "num" -> [ok |-> TRUE, v |-> x.v, exc |-> ""]
    [] x.t = "numstr" -> [ok |-> TRUE, v |-> x.v, exc |-> ""]
    [] x.t = "inf" -> [ok |-> FALSE, v |-> 0, exc |-> "OverflowError"]
    [] x.t = "str" -> [ok |-> FALSE, v |-> 0, exc |-> "ValueError"]
    [] OTHER -> [ok |-> FALSE, v |-> 0, exc |-> "TypeError"]

Max2(a, b) == IF a >= b THEN a ELSE b
Min2(a, b) == IF a <= b THEN a ELSE b
Abs(a) == IF a < 0 THEN 0 - a ELSE a
MinOf(S) == CHOOSE x \in S : \A y \in S : x <= y
SeqsUpTo(S, n) == UNION {[1..k -> S] : k \in 0..n}

\* list.sort(key=...): the permutation a stable ascending sort applies to keys
StableOrder(keys) ==
  [p \in 1..Len(keys) |->
     CHOOSE i \in 1..Len(keys) :
       Cardinality({j \in 1..Len(keys) :
                      keys[j] < keys[i] \/ (keys[j] = keys[i] /\ j < i)}) = p - 1]

\* ------------------------------------------------------- catalog -> bins
\* one valid record of sizes.json as a Bin; idx is the record's position
MakeBin(s, i) ==
  [name |-> IF s.size_cm = None THEN "bin" ELSE s.size_cm,
   width |-> IF ToFloat(s.width).v = INF THEN INF ELSE LenScale * ToFloat(s.width).v,
   height |-> IF ToFloat(s.height).v = INF THEN INF ELSE LenScale * ToFloat(s.height).v,
   depth |-> IF ToFloat(s.length).v = INF THEN INF ELSE LenScale * ToFloat(s.length).v,
   max_weight |-> DefaultMaxWeight * GramScale,
   url |-> s.url,
   idx |-> i]

\* the record passes the checks of build_bins_from_sizes
ValidSize(s) ==
  /\ s.length.t # "none" /\ s.width.t # "none" /\ s.height.t # "none"
  /\ ToFloat(s.length).ok /\ ToFloat(s.width).ok /\ ToFloat(s.height).ok
  /\ ToFloat(s.length).v > 0 /\ ToFloat(s.width).v > 0 /\ ToFloat(s.height).v > 0

RECURSIVE build_bins_from(_, _)
build_bins_from(sizes, i) ==
  IF i > Len(sizes) THEN <<>>
  ELSE IF ValidSize(sizes[i])
       THEN <<MakeBin(sizes[i], i)>> \o build_bins_from(sizes, i + 1)
       ELSE build_bins_from(sizes, i + 1)

build_bins_from_sizes(sizes) == build_bins_from(sizes, 1)

\* ------------------------------------------------------- order -> items
\* str(tag).lower(), on the tags the model uses; a tag with a blank in it
\* stays as it is (there is no strip)
Lower(u) ==
  CASE u = "MM" -> "mm"
    [] u = "M" -> "m"
    [] u = "Metre" -> "metre"
    [] u = "KG" -> "kg"
    [] u = "Mg" -> "mg"
    [] OTHER -> u

LengthFactor(p) ==
  CASE Lower(p.length_unit) = "mm" -> 1
    [] Lower(p.length_unit) \in {"m", "meter", "metre"} -> 100 * LenScale
    [] OTHER -> LenScale

WeightFactor(p) ==
  CASE Lower(p.weight_unit) = "kg" -> 1000 * GramScale
    [] Lower(p.weight_unit) = "mg" -> 1
    [] OTHER -> GramScale

Scaled(v, f) == IF v = INF THEN INF ELSE v * f

\* what one product line does in the loop of build_items_from_order:
\* "skip" (continue), "raise" (an exception the loop does not catch) or "items"
LineOutcome(p) ==
  IF ~p.isdict THEN "skip"
  ELSE IF p.length.t = "none" \/ p.width.t = "none" \/ p.height.t = "none"
          \/ p.weight.t = "none" THEN "skip"
  ELSE IF ~(ToFloat(p.length).ok /\ ToFloat(p.width).ok /\ ToFloat(p.height).ok
            /\ ToFloat(p.weight).ok) THEN "skip"
  ELSE IF p.quantity.t # "none" /\ ~ToInt(p.quantity).ok
       THEN (IF ToInt(p.quantity).exc \in {"TypeError", "ValueError"}
             THEN "skip" ELSE "raise")
  ELSE IF ~(ToFloat(p.length).v > 0 /\ ToFloat(p.width).v > 0
            /\ ToFloat(p.height).v > 0 /\ ToFloat(p.weight).v >= 0) THEN "skip"
  ELSE "items"

LineQuantity(p) == IF p.quantity.t = "none" THEN 1 ELSE ToInt(p.quantity).v

\* an item with the numbers of the line taken as centimetres and grams
LineItem_NoUnits(p) ==
  [name |-> p.title,
   width |-> Scaled(ToFloat(p.width).v, LenScale),
   height |-> Scaled(ToFloat(p.height).v, LenScale),
   depth |-> Scaled(ToFloat(p.length).v, LenScale),
   weight |-> Scaled(ToFloat(p.weight).v, GramScale)]

LineItem(p) ==
  [name |-> p.title,
   width |-> Scaled(ToFloat(p.width).v, LengthFactor(p)),
   height |-> Scaled(ToFloat(p.height).v, LengthFactor(p)),
   depth |-> Scaled(ToFloat(p.length).v, LengthFactor(p)),
   weight |-> Scaled(ToFloat(p.weight).v, WeightFactor(p))]

\* the line repeated quantity times, without the floor of one
LineItems_NoFloor(p) == [k \in 1..LineQuantity(p) |-> LineItem(p)]

LineItems(p) == [k \in 1..Max2(1, LineQuantity(p)) |-> LineItem(p)]

RECURSIVE items_from_lines(_, _)
items_from_lines(products, i) ==
  IF i > Len(products) THEN [raised |-> FALSE, items |-> <<>>]
  ELSE LET o == LineOutcome(products[i]) IN
       IF o = "raise" THEN [raised |-> TRUE, items |-> <<>>]
       ELSE LET rest == items_from_lines(products, i + 1) IN
            IF rest.raised THEN rest
            ELSE [raised |-> FALSE,
                  items |-> (IF o = "items" THEN LineItems(products[i]) ELSE <<>>)
                            \o rest.items]

\* order.get("products") or []
ProductsOf(order) == IF order.pkind = "list" THEN order.products ELSE <<>>

build_items_from_order(order) ==
  IF ~order.isdict THEN [raised |-> FALSE, items |-> <<>>]
  ELSE IF order.pkind = "int" THEN [raised |-> TRUE, items |-> <<>>]
  ELSE items_from_lines(ProductsOf(order), 1)

\* ------------------------------------------------ py3dbp: Packer.pack()
\* The packer is the library the selection calls (Packer, Bin, Item of
\* py3dbp): items in ascending volume, each put at the first pivot where its
\* first rotation that stays inside the bin meets no placed item.
Dimension(it, rot) ==
  CASE rot = 0 -> <<it.width, it.height, it.depth>>
    [] rot = 1 -> <<it.height, it.width, it.depth>>
    [] rot = 2 -> <<it.height, it.depth, it.width>>
    [] rot = 3 -> <<it.depth, it.height, it.width>>
    [] rot = 4 -> <<it.depth, it.width, it.height>>
    [] OTHER -> <<it.width, it.depth, it.height>>

RectIntersect(a, b, x, y) ==
  /\ Abs((2 * a.pos[x] + a.dim[x]) - (2 * b.pos[x] + b.dim[x])) < a.dim[x] + b.dim[x]
  /\ Abs((2 * a.pos[y] + a.dim[y]) - (2 * b.pos[y] + b.dim[y])) < a.dim[y] + b.dim[y]

Intersect(a, b) ==
  RectIntersect(a, b, 1, 2) /\ RectIntersect(a, b, 2, 3) /\ RectIntersect(a, b, 1, 3)

RECURSIVE TotalWeight(_)
TotalWeight(placed) ==
  IF placed = <<>> THEN 0 ELSE Head(placed).weight + TotalWeight(Tail(placed))

\* Bin.put_item: [ok, placed]
PutItem(bin, placed, it, pivot) ==
  LET inside == {r \in 0..5 :
                   /\ bin.width >= pivot[1] + Dimension(it, r)[1]
                   /\ bin.height >= pivot[2] + Dimension(it, r)[2]
                   /\ bin.depth >= pivot[3] + Dimension(it, r)[3]}
  IN IF inside = {} THEN [ok |-> FALSE, placed |-> placed]
     ELSE LET cand == [pos |-> pivot, dim |-> Dimension(it, MinOf(inside)),
                       weight |-> it.weight]
          IN IF \E k \in 1..Len(placed) : Intersect(placed[k], cand)
             THEN [ok |-> FALSE, placed |-> placed]
             ELSE IF TotalWeight(placed) + it.weight > bin.max_weight
             THEN [ok |-> FALSE, placed |-> placed]
             ELSE [ok |-> TRUE, placed |-> Append(placed, cand)]

\* the pivots pack_to_bin tries, in its order: axis by axis, item by item
Pivots(placed) ==
  [k \in 1..(3 * Len(placed)) |->
     LET axis == (k - 1) \div Len(placed)
         ib == placed[((k - 1) % Len(placed)) + 1]
     IN CASE axis = 0 -> <<ib.pos[1] + ib.dim[1], ib.pos[2], ib.pos[3]>>
          [] axis = 1 -> <<ib.pos[1], ib.pos[2] + ib.dim[2], ib.pos[3]>>
          [] OTHER -> <<ib.pos[1], ib.pos[2], ib.pos[3] + ib.dim[3]>>]

\* Packer.pack_to_bin: the items placed after trying to add `it`
PackToBin(bin, placed, it) ==
  IF placed = <<>> THEN PutItem(bin, placed, it, <<0, 0, 0>>).placed
  ELSE LET pv == Pivots(placed)
           good == {k \in 1..Len(pv) : PutItem(bin, placed, it, pv[k]).ok}
       IN IF good = {} THEN placed
          ELSE PutItem(bin, placed, it, pv[MinOf(good)]).placed

RECURSIVE PackItems(_, _, _)
PackItems(bin, items, placed) ==
  IF items = <<>> THEN placed
  ELSE PackItems(bin, Tail(items), PackToBin(bin, placed, Head(items)))

ItemVolume(it) == it.width * it.height * it.depth

\* format_numbers raises on a side that cannot be quantized (infinite, or
\* DecimalLimit and more) and on an infinite weight
PackRaises(items, bin) ==
  \/ \E v \in {bin.width, bin.height, bin.depth} : v >= DecimalLimit
  \/ \E k \in 1..Len(items) :
       \/ \E v \in {items[k].width, items[k].height, items[k].depth} : v >= DecimalLimit
       \/ items[k].weight = INF

\* packer.pack() on one bin: the number of items in packer.bins[0].items
PackFitted(items, bin) ==
  LET ord == StableOrder([k \in 1..Len(items) |-> ItemVolume(items[k])])
      sorted == [k \in 1..Len(items) |-> items[ord[k]]]
  IN Len(PackItems(bin, sorted, <<>>))

\* ------------------------------------------------------ Packing Selector
\* the key of candidate_bins.sort: width * height * depth as floats
BinVolume(b) ==
  IF INF \in {b.width, b.height, b.depth} THEN INF
  ELSE b.width * b.height * b.depth

\* the candidates left in catalog order (the sort forgotten)
SortedCandidates_Unsorted(sizes) == build_bins_from_sizes(sizes)

SortedCandidates(sizes) ==
  LET bins == build_bins_from_sizes(sizes)
      ord == StableOrder([k \in 1..Len(bins) |-> BinVolume(bins[k])])
  IN [k \in 1..Len(bins) |-> bins[ord[k]]]

\* the candidate is returned as soon as the packer has placed one item
FullFit_AnyItem(items, bin) == ~PackRaises(items, bin) /\ PackFitted(items, bin) >= 1

\* the candidate is returned by the loop: pack() did not raise and every
\* item is in packed_bin.items
FullFit(items, bin) == ~PackRaises(items, bin) /\ PackFitted(items, bin) = Len(items)

\* `raised` says that the selection ended with an exception, not a value
NoBin == [found |-> FALSE, bin |-> [name |-> "", width |-> 0, height |-> 0,
          depth |-> 0, max_weight |-> 0, url |-> None, idx |-> 0], fitted |-> 0,
          raised |-> FALSE]

\* the loop without its try/except: a candidate that makes pack() raise
\* before a candidate is returned ends the selection with the exception
find_single_bin_for_items_NoCatch(items, sizes) ==
  IF items = <<>> THEN NoBin
  ELSE LET cands == SortedCandidates(sizes)
           good == {k \in 1..Len(cands) : FullFit(items, cands[k])}
           bad == {k \in 1..Len(cands) : PackRaises(items, cands[k])}
       IN IF bad # {} /\ (good = {} \/ MinOf(bad) < MinOf(good))
          THEN [NoBin EXCEPT !.raised = TRUE]
          ELSE IF good = {} THEN NoBin
          ELSE [found |-> TRUE, bin |-> cands[MinOf(good)],
                fitted |-> PackFitted(items, cands[MinOf(good)]),
                raised |-> FALSE]

find_single_bin_for_items(items, sizes) ==
  IF items = <<>> THEN NoBin
  ELSE LET cands == SortedCandidates(sizes)
           good == {k \in 1..Len(cands) : FullFit(items, cands[k])}
       IN IF good = {} THEN NoBin
          ELSE [found |-> TRUE, bin |-> cands[MinOf(good)],
                fitted |-> PackFitted(items, cands[MinOf(good)]),
                raised |-> FALSE]

\* the caller has just built the items of orders_list[index] without an
\* exception, so build_items_from_order does not raise here
find_single_bin_that_fits_all_items(orders_list, sizes, index) ==
  IF index < 0 \/ index >= Len(orders_list) THEN NoBin
  ELSE LET items == build_items_from_order(orders_list[index + 1]).items
       IN IF items = <<>> THEN NoBin
          ELSE LET cands == SortedCandidates(sizes)
                   good == {k \in 1..Len(cands) : FullFit(items, cands[k])}
               IN IF good = {} THEN NoBin
                  ELSE [found |-> TRUE, bin |-> cands[MinOf(good)],
                        fitted |-> PackFitted(items, cands[MinOf(good)]),
                raised |-> FALSE]

\* ------------------------------------------------------- PackingResult
NoBinInfo == [name |-> "", length |-> 0, width |-> 0, height |-> 0, volume |-> 0,
              fitted_items |-> 0, url |-> None]

\* bin_info of a summary; a bin that came through pack() has finite sides
BinInfo(best) ==
  [name |-> best.bin.name, length |-> best.bin.depth, width |-> best.bin.width,
   height |-> best.bin.height,
   volume |-> best.bin.depth * best.bin.width * best.bin.height,
   fitted_items |-> best.fitted, url |-> best.bin.url]

\* a summary that counts only the lines that gave items
Summary_CountSurvivingLines(order, index, best) ==
  [order_index |-> index,
   order_id |-> IF order.isdict THEN order.transaction_id ELSE None,
   products_count |-> IF order.isdict
                      THEN Cardinality({i \in 1..Len(ProductsOf(order)) :
                                          LineOutcome(ProductsOf(order)[i]) = "items"})
                      ELSE 0,
   has_bin |-> best.found,
   bin |-> IF best.found THEN BinInfo(best) ELSE NoBinInfo]

Summary(order, index, best) ==
  [order_index |-> index,
   order_id |-> IF order.isdict THEN order.transaction_id ELSE None,
   products_count |-> IF order.isdict THEN Len(ProductsOf(order)) ELSE 0,
   has_bin |-> best.found,
   bin |-> IF best.found THEN BinInfo(best) ELSE NoBinInfo]

\* [raised, summary]
build_packing_summary_for_order(orders_list, sizes, index) ==
  IF index < 0 \/ index >= Len(orders_list)
  THEN [raised |-> TRUE, summary |-> Summary(orders_list[1], index, NoBin)]
  ELSE LET order == orders_list[index + 1] IN
       IF build_items_from_order(order).raised
       THEN [raised |-> TRUE, summary |-> Summary(order, index, NoBin)]
       ELSE LET best == find_single_bin_that_fits_all_items(orders_list, sizes, index)
            IN [raised |-> best.raised, summary |-> Summary(order, index, best)]

\* the builder that refuses an order without items
build_packing_summary_for_single_RaiseOnEmpty(order, sizes, index) ==
  LET built == build_items_from_order(order) IN
  IF built.raised \/ built.items = <<>>
  THEN [raised |-> TRUE, summary |-> Summary(order, index, NoBin)]
  ELSE LET best == find_single_bin_for_items(built.items, sizes)
       IN [raised |-> best.raised, summary |-> Summary(order, index, best)]

build_packing_summary_for_single(order, sizes, index) ==
  LET built == build_items_from_order(order) IN
  IF built.raised THEN [raised |-> TRUE, summary |-> Summary(order, index, NoBin)]
  ELSE LET best == find_single_bin_for_items(built.items, sizes)
       IN [raised |-> best.raised, summary |-> Summary(order, index, best)]

\* ------------------------------------------------------ Usage Aggregator
\* p.get("quantity", 0) or 0, as a term of the sum of create_order_lookup:
\* a string cannot be added to the running integer
QuantityTerm(p) ==
  CASE p.quantity.t = "none" -> [ok |-> TRUE, v |-> 0]
    [] p.quantity.t = "num" -> [ok |-> TRUE, v |-> p.quantity.v]
    [] p.quantity.t = "inf" -> [ok |-> TRUE, v |-> INF]
    [] OTHER -> [ok |-> FALSE, v |-> 0]

RECURSIVE SumQuantity(_)
SumQuantity(products) ==
  IF products = <<>> THEN 0
  ELSE LET p == Head(products)
           rest == SumQuantity(Tail(products))
       IN IF ~p.isdict THEN rest
          ELSE IF QuantityTerm(p).v = INF \/ rest = INF THEN INF
          ELSE QuantityTerm(p).v + rest

Truthy(id) == id # None /\ id # ""

\* the order makes create_order_lookup raise
LookupRaises(order) ==
  /\ order.isdict /\ Truthy(order.transaction_id)
  /\ \/ order.pkind = "int"
     \/ \E k \in 1..Len(ProductsOf(order)) :
          ProductsOf(order)[k].isdict /\ ~QuantityTerm(ProductsOf(order)[k]).ok

LookupEntry(order) ==
  [index |-> order.index,
   products_count |-> Len(ProductsOf(order)),
   total_quantity |-> SumQuantity(ProductsOf(order))]

\* [raised, ids, at]: `at` maps each id of `ids` to its entry, the last
\* order with the id winning
create_order_lookup(orders_data) ==
  LET keyed == {k \in 1..Len(orders_data) :
                  orders_data[k].isdict /\ Truthy(orders_data[k].transaction_id)}
      ids == {orders_data[k].transaction_id : k \in keyed}
      last(id) == CHOOSE k \in keyed :
                    /\ orders_data[k].transaction_id = id
                    /\ \A j \in keyed : orders_data[j].transaction_id = id => j <= k
  IN IF \E k \in 1..Len(orders_data) : LookupRaises(orders_data[k])
     THEN [raised |-> TRUE, ids |-> {}, at |-> <<>>]
     ELSE [raised |-> FALSE, ids |-> ids,
           at |-> [id \in ids |-> LookupEntry(orders_data[last(id)])]]

\* the value the defaultdict makes for a new key
DefaultStats ==
  [name |-> "bin", url |-> "", length |-> 0, width |-> 0, height |-> 0, volume |-> 0,
   usage_count |-> 0, orders_detail |-> <<>>]

OrderDetail(summary, lookup) ==
  IF Truthy(summary.order_id) /\ summary.order_id \in lookup.ids
  THEN [order_id |-> summary.order_id, order_index |-> summary.order_index,
        products_count |-> summary.products_count, has_lookup |-> TRUE,
        order_index_from_orders |-> lookup.at[summary.order_id].index,
        actual_products_count |-> lookup.at[summary.order_id].products_count,
        total_quantity |-> lookup.at[summary.order_id].total_quantity]
  ELSE [order_id |-> summary.order_id, order_index |-> summary.order_index,
        products_count |-> summary.products_count, has_lookup |-> FALSE,
        order_index_from_orders |-> JNone, actual_products_count |-> 0,
        total_quantity |-> 0]

\* the entry with its count set to one instead of incremented
Accumulate_CountOnce(stats, summary, lookup) ==
  LET upd == IF stats.length = 0
             THEN [stats EXCEPT !.name = summary.bin.name, !.url = summary.bin.url,
                                !.length = summary.bin.length,
                                !.width = summary.bin.width,
                                !.height = summary.bin.height,
                                !.volume = summary.bin.volume]
             ELSE stats
  IN [upd EXCEPT !.usage_count = 1,
                 !.orders_detail = Append(@, OrderDetail(summary, lookup))]

\* lines 72-103: one summary that has a bin with a key, added to its entry
Accumulate(stats, summary, lookup) ==
  LET upd == IF stats.length = 0
             THEN [stats EXCEPT !.name = summary.bin.name, !.url = summary.bin.url,
                                !.length = summary.bin.length,
                                !.width = summary.bin.width,
                                !.height = summary.bin.height,
                                !.volume = summary.bin.volume]
             ELSE stats
  IN [upd EXCEPT !.usage_count = @ + 1,
                 !.orders_detail = Append(@, OrderDetail(summary, lookup))]

\* the summary is skipped by the loop of analyze_bin_usage
SkippedByAnalyze(summary) == ~summary.has_bin \/ ~Truthy(summary.bin.url)

\* bin_stats is the dictionary in insertion order: a sequence of entries
RECURSIVE analyze_from(_, _, _, _)
analyze_from(packing_summaries, k, lookup, bin_stats) ==
  IF k > Len(packing_summaries) THEN bin_stats
  ELSE LET summary == packing_summaries[k] IN
       IF SkippedByAnalyze(summary)
       THEN analyze_from(packing_summaries, k + 1, lookup, bin_stats)
       ELSE IF \E i \in 1..Len(bin_stats) : bin_stats[i].key = summary.bin.url
            THEN LET i == CHOOSE i \in 1..Len(bin_stats) :
                             bin_stats[i].key = summary.bin.url
                 IN analyze_from(packing_summaries, k + 1, lookup,
                      [bin_stats EXCEPT ![i] =
                         [key |-> @.key,
                          stats |-> Accumulate(@.stats, summary, lookup)]])
            ELSE analyze_from(packing_summaries, k + 1, lookup,
                   Append(bin_stats,
                     [key |-> summary.bin.url,
                      stats |-> Accumulate(DefaultStats, summary, lookup)]))

analyze_bin_usage(packing_summaries, lookup) ==
  analyze_from(packing_summaries, 1, lookup, <<>>)

RECURSIVE SumOver(_, _)
SumOver(f, n) == IF n = 0 THEN 0 ELSE f[n] + SumOver(f, n - 1)

\* int(od.get("total_quantity", 0) or 0) raises on an infinite sum
EnhanceRaises(stats) ==
  \E k \in 1..Len(stats.orders_detail) :
     stats.orders_detail[k].has_lookup /\ stats.orders_detail[k].total_quantity = INF

\* lines 113-160: the item of one entry; order_index is always an integer
\* here, so the sort key of a detail is (False, order_index)
EnhancedItem(stats) ==
  LET od == stats.orders_detail
      ord == StableOrder([k \in 1..Len(od) |-> od[k].order_index])
      actual == SumOver([k \in 1..Len(od) |->
                           IF od[k].has_lookup THEN od[k].actual_products_count ELSE 0],
                        Len(od))
      quantity == SumOver([k \in 1..Len(od) |->
                             IF od[k].has_lookup THEN od[k].total_quantity ELSE 0],
                          Len(od))
  IN [name |-> stats.name, url |-> stats.url, length |-> stats.length,
      width |-> stats.width, height |-> stats.height, volume |-> stats.volume,
      usage_count |-> stats.usage_count,
      orders_detail |-> [k \in 1..Len(od) |-> od[ord[k]]],
      total_unique_orders |->
         Cardinality({od[k].order_id : k \in {j \in 1..Len(od) : od[j].order_id # None}}),
      total_products_packed |-> SumOver([k \in 1..Len(od) |-> od[k].products_count],
                                        Len(od)),
      has_totals |-> actual > 0,
      total_actual_products |-> IF actual > 0 THEN actual ELSE 0,
      total_quantity |-> IF actual > 0 THEN quantity ELSE 0]

\* sorted ascending and then reversed: equal counts end in reverse order
SortByUsage_Reversed(items) ==
  LET ord == StableOrder([k \in 1..Len(items) |-> items[k].usage_count])
  IN [k \in 1..Len(items) |-> items[ord[Len(items) + 1 - k]]]

\* result.sort(key=usage_count, reverse=True): a stable descending sort
SortByUsage(items) ==
  LET ord == StableOrder([k \in 1..Len(items) |-> 0 - items[k].usage_count])
  IN [k \in 1..Len(items) |-> items[ord[k]]]

\* [raised, list]
create_enhanced_statistics(bin_stats) ==
  IF \E i \in 1..Len(bin_stats) : EnhanceRaises(bin_stats[i].stats)
  THEN [raised |-> TRUE, list |-> <<>>]
  ELSE [raised |-> FALSE,
        list |-> SortByUsage([i \in 1..Len(bin_stats) |->
                                EnhancedItem(bin_stats[i].stats)])]

\* ---------------------------------------------------------------- inputs
Line(l, w, h, wt, q) ==
  [isdict |-> TRUE, title |-> "item", length |-> l, width |-> w, height |-> h,
   weight |-> wt, quantity |-> q, length_unit |-> "cm", weight_unit |-> "g"]

Order(id, lines) ==
  [isdict |-> TRUE, transaction_id |-> id, index |-> JNone, pkind |-> "list",
   products |-> lines]

\* max_weight is the capacity the record gives for its container (JNone:
\* it gives none)
Size(url, name, l, w, h) ==
  [url |-> url, size_cm |-> name, length |-> l, width |-> w, height |-> h,
   max_weight |-> JNone]

SizeA == Size("/b1", "2x2x2", Num(2), Num(2), Num(2))
SizeB == Size("/b2", "4x2x1", Num(4), Num(2), Num(1))
SizeC == Size("/b3", "3x3x3", Num(3), Num(3), Num(3))
SizeD == Size("/b1", "4x4x4", Num(4), Num(4), Num(4))
SizeE == Size("/b5", "0x2x2", Num(0), Num(2), Num(2))
SizeF == Size("/b6", "inf", JInf, Num(1), Num(1))
SizeG == Size(None, None, NumStr(1), Num(1), Num(1))
SizeH == Size("/b8", "bad", JStr, Num(2), JNone)
SizeWide == Size("/b9", "50x1x1", Num(50), Num(1), Num(1))
SizeBadNum == Size("/b10", "2xax2", Num(2), JStr, Num(2))
SizeNeg == Size("/b11", "2x2x-1", Num(2), Num(2), Num(-1))
SizeLight == [Size("/b12", "4x4x4", Num(4), Num(4), Num(4)) EXCEPT !.max_weight = Num(3)]

\* the catalog records the selection is checked on
SizePool == {SizeA, SizeB, SizeC, SizeD, SizeE, SizeF, SizeG, SizeWide}

OrderSmall == Order("T1", <<Line(Num(1), Num(1), Num(1), Num(5), JNone)>>)
OrderLong == Order("T2", <<Line(Num(4), Num(1), Num(1), Num(5), Num(1)),
                           Line(Num(1), Num(1), JNone, Num(5), Num(1))>>)
OrderTwo == Order("T3", <<Line(Num(2), Num(2), Num(1), Num(5), NumStr(2))>>)
OrderBig == Order("T4", <<Line(Num(3), Num(3), Num(3), Num(5), Num(0)),
                          Line(Num(1), Num(1), Num(1), Num(5), Num(-1))>>)
OrderHeavy == Order("T5", <<[Line(Num(1), Num(1), Num(1), Num(101), Num(1))
                               EXCEPT !.weight_unit = "kg"]>>)
OrderInfDim == Order("T6", <<Line(JInf, Num(1), Num(1), Num(5), Num(1))>>)
OrderEmpty == Order(None, <<>>)
OrderBadQty == Order("T1", <<Line(Num(1), Num(1), Num(1), Num(5), JStr)>>)
OrderInfQty == Order("T7", <<Line(Num(1), Num(1), Num(1), Num(5), JInf)>>)
OrderNoList == [Order("T8", <<>>) EXCEPT !.pkind = "int"]
OrderNotDict == [Order(None, <<>>) EXCEPT !.isdict = FALSE]

\* the orders one selection is checked on
SelOrderPool == {OrderSmall, OrderLong, OrderTwo, OrderBig, OrderHeavy, OrderInfDim,
                 OrderEmpty, OrderBadQty}

\* the orders and catalogs a whole run is checked on
OrderPool == {OrderSmall, OrderLong, OrderInfQty, OrderEmpty, OrderBadQty, OrderNotDict}
CatalogPool == {<<SizeC, SizeA, SizeB>>, <<SizeB, SizeE, SizeD, SizeA>>,
                <<SizeF, SizeG>>}
CapPool == {JNone, JStr} \cup {Num(c) : c \in -1..MaxCap}

\* PackingResults handed to the aggregator directly
Result(id, count, url, name, l, w, h) ==
  [order_index |-> 0, order_id |-> id, products_count |-> count, has_bin |-> TRUE,
   bin |-> [name |-> name, length |-> l, width |-> w, height |-> h,
            volume |-> l * w * h, fitted_items |-> count, url |-> url]]
NullFit(id, count) ==
  [order_index |-> 0, order_id |-> id, products_count |-> count, has_bin |-> FALSE,
   bin |-> NoBinInfo]

SummaryPool == {Result("T1", 1, "/b1", "2x2x2", 20, 20, 20),
                Result("T2", 2, "/b1", "4x4x4", 40, 40, 40),
                Result(None, 1, "/b1", "flat", 0, 20, 20),
                Result("T2", 1, "/b2", "4x2x1", 40, 20, 10),
                Result("T3", 3, "/b3", "3x3x3", 30, 30, 30),
                Result("T1", 1, None, "bin", 10, 10, 10),
                NullFit("T3", 1)}
AggOrdersPool == {<<OrderSmall, OrderLong, OrderBig>>,
                  <<OrderSmall, OrderLong, Order("T1", <<>>)>>,
                  <<OrderLong, OrderBadQty>>,
                  <<[OrderLong EXCEPT !.transaction_id = "T3", !.index = Num(7),
                                      !.products[2].quantity = JInf]>>}

\* ----------------------------------------------------------------- state
VARIABLES
  orders,      \* orders_list / orders_iter: what the order source supplies
  sizes,       \* sizes_list: the catalog records
  max_orders,  \* the cap argument, a JSON scalar (JNone: absent)
  mode,        \* "batch" (perform), "stream" (perform_stream), "select"
  pc,          \* where the call stands
  limit,       \* [has, v]: the local limit (has = FALSE: None)
  processed,   \* perform_stream's counter; perform's loop index
  pulled,      \* how many orders the for statement has taken from the source
  summaries,   \* the summaries list
  attempted,   \* history: the indices whose summary was attempted, in order
  dropped,     \* history: the indices whose summary raised
  chosen,      \* the selection's return value (select mode)
  items,       \* what build_items_from_order returned (select mode)
  bins,        \* what build_bins_from_sizes returned
  errlog,      \* the records build_bins_from_sizes called logger.error for
  csv,         \* the data rows BinUsageCsvExportService.perform wrote, in order
  result,      \* the dictionary the call returns
  order_lookup, \* BinUsageStatisticsService.perform: order_lookup
  bin_stats,   \* bin_stats, the dictionary in insertion order
  enhanced,    \* the list perform returns
  runs,        \* history: the calls of perform that have returned or raised
  prev,        \* history: what the call before this one returned
  cpc,         \* BinPackagePipeline.execute: where the coordinator stands
  ci,          \* the coordinator's position in ("kc", "jf", "jwl")
  wpc,         \* each category's worker thread: where it stands
  wfault,      \* each worker: the step that raised, or "none"
  statsFile,   \* data/bin_usage_statistics_<typ>.json
  csvFile,     \* data/bin_usage_statistics_<typ>.csv
  uploadFailed, \* the uploads to the notification sink that raised
  instances,   \* Singleton._instances: class -> object (0: no entry)
  spc,         \* each worker thread: where it stands in Singleton.__new__
  scls,        \* each worker thread: which of its constructions it is in
  returned,    \* history: the objects the constructions of a class returned
  allocated,   \* history: how many objects super().__new__ has made
  wrote,       \* history: the threads that stored into Singleton._instances
  readers,     \* history: the threads that read Singleton._instances
  batch_out    \* history: what perform returned, kept for perform_stream

singVars == <<instances, spc, scls, returned, allocated, wrote, readers>>
extraVars == <<csv, singVars, batch_out>>
aggVars == <<order_lookup, bin_stats, enhanced, runs, prev>>
coordVars == <<cpc, ci, wpc, wfault, statsFile, csvFile, uploadFailed>>
vars == <<orders, sizes, max_orders, mode, pc, limit, processed, pulled, summaries,
          attempted, dropped, chosen, items, bins, errlog, extraVars, result, aggVars, coordVars>>

Types == <<"kc", "jf", "jwl">>
TypeSet == {Types[k] : k \in 1..Len(Types)}

NoLookup == [raised |-> FALSE, ids |-> {}, at |-> <<>>]

\* the aggregator has not run
AggIdle ==
  /\ order_lookup = NoLookup
  /\ bin_stats = <<>>
  /\ enhanced = <<>>
  /\ runs = 0
  /\ prev = [raised |-> FALSE, list |-> <<>>]

\* no coordinator runs
CoordIdle ==
  /\ cpc = "idle"
  /\ ci = 0
  /\ wpc = [t \in TypeSet |-> "idle"]
  /\ wfault = [t \in TypeSet |-> "none"]
  /\ statsFile = [t \in TypeSet |-> "absent"]
  /\ csvFile = [t \in TypeSet |-> "absent"]
  /\ uploadFailed = {}

NoItems == [raised |-> FALSE, items |-> <<>>]

\* the export has not run
\* the constructions a worker makes, in the order of _process_type
Constructions == <<"ResourceHelper", "ResourceHelper", "BinPackagingService",
                   "BinUsageStatisticsService", "DiscordFileUploadService", "DataHelper">>
Made == Min2(MaxConstructions, Len(Constructions))
Classes == {Constructions[k] : k \in 1..Made}

\* no Singleton has been constructed
SingIdle ==
  /\ instances = [c \in Classes |-> 0]
  /\ spc = [t \in TypeSet |-> "idle"]
  /\ scls = [t \in TypeSet |-> 1]
  /\ returned = [c \in Classes |-> {}]
  /\ allocated = 0
  /\ wrote = {}
  /\ readers = {}

NoBatchOut == [has |-> FALSE, summaries |-> <<>>, processed_orders |-> 0,
            total_summaries |-> 0]

ExtraIdle ==
  /\ csv = <<>>
  /\ SingIdle
  /\ batch_out = NoBatchOut

NoResult == [total_orders |-> 0, processed_orders |-> 0, total_summaries |-> 0]

\* ------------------------------------------- one selection (both helpers)
InitSel ==
  /\ orders \in {<<o>> : o \in SelOrderPool}
  /\ sizes \in SeqsUpTo(SizePool, MaxSizes)
  /\ max_orders = JNone
  /\ mode = "select"
  /\ pc = "select"
  /\ limit = [has |-> FALSE, v |-> 0]
  /\ processed = 0
  /\ pulled = 0
  /\ summaries = <<>>
  /\ attempted = <<>>
  /\ dropped = {}
  /\ chosen = NoBin
  /\ items = NoItems
  /\ bins = <<>>
  /\ errlog = <<>>
  /\ ExtraIdle
  /\ result = NoResult
  /\ AggIdle
  /\ CoordIdle

\* find_single_bin_for_items on the items of the order
SelectForItems ==
  /\ pc = "select"
  /\ chosen' = find_single_bin_for_items(build_items_from_order(orders[1]).items, sizes)
  /\ pc' = "selected_items"
  /\ UNCHANGED <<aggVars, coordVars, orders, sizes, max_orders, mode, limit, processed, pulled, summaries,
                 attempted, dropped, result, items, bins, errlog, extraVars>>

\* find_single_bin_that_fits_all_items on index 0
SelectForIndex ==
  /\ pc = "select"
  /\ chosen' = find_single_bin_that_fits_all_items(orders, sizes, 0)
  /\ pc' = "selected_index"
  /\ UNCHANGED <<aggVars, coordVars, orders, sizes, max_orders, mode, limit, processed, pulled, summaries,
                 attempted, dropped, result, items, bins, errlog, extraVars>>

\* build_packing_summary_for_single on the order, as index 0
SummarizeSingle ==
  /\ pc = "select"
  /\ LET built == build_packing_summary_for_single(orders[1], sizes, 0)
     IN /\ summaries' = IF built.raised THEN <<>> ELSE <<built.summary>>
        /\ dropped' = IF built.raised THEN {0} ELSE {}
  /\ pc' = "summarized_single"
  /\ UNCHANGED <<aggVars, coordVars, orders, sizes, max_orders, mode, limit, processed, pulled,
                 attempted, chosen, items, bins, errlog, extraVars, result>>

\* build_packing_summary_for_order on index 0 of the one-order list
SummarizeOrder ==
  /\ pc = "select"
  /\ LET built == build_packing_summary_for_order(orders, sizes, 0)
     IN /\ summaries' = IF built.raised THEN <<>> ELSE <<built.summary>>
        /\ dropped' = IF built.raised THEN {0} ELSE {}
  /\ pc' = "summarized_order"
  /\ UNCHANGED <<aggVars, coordVars, orders, sizes, max_orders, mode, limit, processed, pulled,
                 attempted, chosen, items, bins, errlog, extraVars, result>>

NextSel == SelectForItems \/ SelectForIndex \/ SummarizeSingle \/ SummarizeOrder

SpecSel == InitSel /\ [][NextSel]_vars

\* ---------------------------------------- Container Catalog Loader alone
\* the records for which build_bins_from_sizes calls logger.error (line 149),
\* in catalog order: the three numbers are read and one is not positive
RECURSIVE logged_from(_, _)
logged_from(recs, i) ==
  IF i > Len(recs) THEN <<>>
  ELSE LET s == recs[i]
           read == /\ s.length.t # "none" /\ s.width.t # "none" /\ s.height.t # "none"
                   /\ ToFloat(s.length).ok /\ ToFloat(s.width).ok /\ ToFloat(s.height).ok
       IN IF read /\ ~ValidSize(s) THEN <<i>> \o logged_from(recs, i + 1)
          ELSE logged_from(recs, i + 1)

CatPool == SizePool \cup {SizeH, SizeBadNum, SizeNeg, SizeLight}

InitCat ==
  /\ orders = <<>>
  /\ sizes \in SeqsUpTo(CatPool, MaxSizes)
  /\ max_orders = JNone
  /\ mode = "load"
  /\ pc = "load"
  /\ limit = [has |-> FALSE, v |-> 0]
  /\ processed = 0
  /\ pulled = 0
  /\ summaries = <<>>
  /\ attempted = <<>>
  /\ dropped = {}
  /\ chosen = NoBin
  /\ items = NoItems
  /\ bins = <<>>
  /\ errlog = <<>>
  /\ ExtraIdle
  /\ result = NoResult
  /\ AggIdle
  /\ CoordIdle

\* build_bins_from_sizes on the catalog
LoadBins ==
  /\ pc = "load"
  /\ bins' = build_bins_from_sizes(sizes)
  /\ errlog' = logged_from(sizes, 1)
  /\ pc' = "loaded"
  /\ UNCHANGED <<aggVars, coordVars, orders, sizes, max_orders, mode, limit, processed, pulled, summaries,
                 attempted, dropped, chosen, items, result, extraVars>>

NextCat == LoadBins

SpecCat == InitCat /\ [][NextCat]_vars

\* ------------------------------------------------- Item Expander alone
\* the product lines the expansion is checked on: quantities absent, zero,
\* negative, above one, spelled as a string, not a number, infinite; a
\* missing dimension; millimetres
LinePool ==
  {Line(Num(1), Num(1), Num(1), Num(5), JNone),
   Line(Num(3), Num(3), Num(3), Num(5), Num(0)),
   Line(Num(2), Num(1), Num(1), Num(5), Num(-1)),
   Line(Num(2), Num(2), Num(1), Num(5), NumStr(2)),
   Line(Num(1), Num(2), Num(1), Num(7), Num(3)),
   Line(Num(1), Num(1), Num(2), Num(5), JStr),
   Line(Num(1), Num(1), JNone, Num(5), Num(1)),
   [Line(Num(30), Num(10), Num(10), Num(5), Num(2)) EXCEPT !.length_unit = "mm"],
   Line(Num(1), Num(1), Num(1), Num(5), JInf),
   [Line(Num(2), Num(1), Num(1), Num(2), Num(1)) EXCEPT !.length_unit = "m",
                                                        !.weight_unit = "kg"],
   [Line(Num(1), Num(2), Num(1), Num(3000), Num(1)) EXCEPT !.length_unit = "metre",
                                                           !.weight_unit = "mg"],
   [Line(Num(1), Num(1), Num(3), Num(4), Num(1)) EXCEPT !.length_unit = "meter",
                                                        !.weight_unit = "lb"],
   [Line(Num(4), Num(2), Num(2), Num(6), Num(1)) EXCEPT !.length_unit = "inch",
                                                        !.weight_unit = "KG"],
   [Line(Num(20), Num(20), Num(10), Num(8), Num(1)) EXCEPT !.length_unit = "MM",
                                                           !.weight_unit = " kg"]}

InitExpand ==
  /\ orders \in {<<Order("T1", lines)>> : lines \in SeqsUpTo(LinePool, MaxLines)}
  /\ sizes = <<>>
  /\ max_orders = JNone
  /\ mode = "expand"
  /\ pc = "expand"
  /\ limit = [has |-> FALSE, v |-> 0]
  /\ processed = 0
  /\ pulled = 0
  /\ summaries = <<>>
  /\ attempted = <<>>
  /\ dropped = {}
  /\ chosen = NoBin
  /\ items = NoItems
  /\ bins = <<>>
  /\ errlog = <<>>
  /\ ExtraIdle
  /\ result = NoResult
  /\ AggIdle
  /\ CoordIdle

\* build_items_from_order on the order
ExpandItems ==
  /\ pc = "expand"
  /\ items' = build_items_from_order(orders[1])
  /\ pc' = "expanded"
  /\ UNCHANGED <<aggVars, coordVars, orders, sizes, max_orders, mode, limit, processed, pulled, summaries,
                 attempted, dropped, chosen, result, bins, errlog, extraVars>>

NextExpand == ExpandItems

SpecExpand == InitExpand /\ [][NextExpand]_vars

\* ------------------------------------------- Order Packing Orchestrator
Init ==
  /\ orders \in SeqsUpTo(OrderPool, MaxOrders)
  /\ sizes \in CatalogPool
  /\ max_orders \in CapPool
  /\ mode \in {"batch", "stream"}
  /\ pc = "start"
  /\ limit = [has |-> FALSE, v |-> 0]
  /\ processed = 0
  /\ pulled = 0
  /\ summaries = <<>>
  /\ attempted = <<>>
  /\ dropped = {}
  /\ chosen = NoBin
  /\ items = NoItems
  /\ bins = <<>>
  /\ errlog = <<>>
  /\ ExtraIdle
  /\ result = NoResult
  /\ AggIdle
  /\ CoordIdle

\* the limit taken from the list alone, the cap not looked at
BatchStart_NoCap ==
  /\ pc = "start" /\ mode = "batch"
  /\ limit' = [has |-> TRUE, v |-> Len(orders)]
  /\ pc' = "batch_loop"
  /\ UNCHANGED <<aggVars, coordVars, orders, sizes, max_orders, mode, processed, pulled, summaries,
                 attempted, dropped, chosen, items, bins, errlog, extraVars, result>>

\* perform, lines 31-37: the limit
BatchStart ==
  /\ pc = "start" /\ mode = "batch"
  /\ limit' = IF max_orders.t # "none" /\ ToInt(max_orders).ok
              THEN [has |-> TRUE, v |-> Max2(0, Min2(ToInt(max_orders).v, Len(orders)))]
              ELSE [has |-> TRUE, v |-> Len(orders)]
  /\ pc' = "batch_loop"
  /\ UNCHANGED <<aggVars, coordVars, orders, sizes, max_orders, mode, processed, pulled, summaries,
                 attempted, dropped, chosen, items, bins, errlog, extraVars, result>>

\* the turn without its try/except: a summary that raises ends the loop
BatchStep_NoCatch ==
  /\ pc = "batch_loop" /\ processed < limit.v
  /\ LET index == processed
         built == build_packing_summary_for_order(orders, sizes, index)
     IN /\ attempted' = Append(attempted, index)
        /\ summaries' = IF built.raised THEN summaries
                        ELSE Append(summaries, built.summary)
        /\ dropped' = IF built.raised THEN dropped \cup {index} ELSE dropped
        /\ processed' = IF built.raised THEN limit.v ELSE processed + 1
  /\ UNCHANGED <<aggVars, coordVars, orders, sizes, max_orders, mode, pc, limit, pulled, chosen, items, bins, errlog, extraVars, result>>

\* perform, lines 39-49: one turn of the loop over range(limit)
BatchStep ==
  /\ pc = "batch_loop" /\ processed < limit.v
  /\ LET index == processed
         built == build_packing_summary_for_order(orders, sizes, index)
     IN /\ attempted' = Append(attempted, index)
        /\ summaries' = IF built.raised THEN summaries
                        ELSE Append(summaries, built.summary)
        /\ dropped' = IF built.raised THEN dropped \cup {index} ELSE dropped
        /\ processed' = processed + 1
  /\ UNCHANGED <<aggVars, coordVars, orders, sizes, max_orders, mode, pc, limit, pulled, chosen, items, bins, errlog, extraVars, result>>

\* a result whose processed_orders is the number of summaries
BatchDone_ProcessedIsSummaries ==
  /\ pc = "batch_loop" /\ processed >= limit.v
  /\ result' = [total_orders |-> Len(orders), processed_orders |-> Len(summaries),
                total_summaries |-> Len(summaries)]
  /\ pc' = "done"
  /\ UNCHANGED <<aggVars, coordVars, orders, sizes, max_orders, mode, limit, processed, pulled, summaries,
                 attempted, dropped, chosen, items, bins, errlog, extraVars>>

\* perform, lines 51-60: the loop is over, the result
BatchDone ==
  /\ pc = "batch_loop" /\ processed >= limit.v
  /\ result' = [total_orders |-> Len(orders), processed_orders |-> limit.v,
                total_summaries |-> Len(summaries)]
  /\ pc' = "done"
  /\ UNCHANGED <<aggVars, coordVars, orders, sizes, max_orders, mode, limit, processed, pulled, summaries,
                 attempted, dropped, chosen, items, bins, errlog, extraVars>>

\* perform_stream that takes no cap
StreamStart_NoCap ==
  /\ pc = "start" /\ mode = "stream"
  /\ limit' = [has |-> FALSE, v |-> 0]
  /\ pc' = "stream_for"
  /\ UNCHANGED <<aggVars, coordVars, orders, sizes, max_orders, mode, processed, pulled, summaries,
                 attempted, dropped, chosen, items, bins, errlog, extraVars, result>>

\* perform_stream, lines 74-85: the limit
StreamStart ==
  /\ pc = "start" /\ mode = "stream"
  /\ limit' = IF max_orders.t # "none" /\ ToInt(max_orders).ok
              THEN [has |-> TRUE, v |-> Max2(0, ToInt(max_orders).v)]
              ELSE [has |-> FALSE, v |-> 0]
  /\ pc' = "stream_for"
  /\ UNCHANGED <<aggVars, coordVars, orders, sizes, max_orders, mode, processed, pulled, summaries,
                 attempted, dropped, chosen, items, bins, errlog, extraVars, result>>

\* line 87: the for statement takes the next order from the source
StreamNext ==
  /\ pc = "stream_for" /\ pulled < Len(orders)
  /\ pulled' = pulled + 1
  /\ pc' = "stream_body"
  /\ UNCHANGED <<aggVars, coordVars, orders, sizes, max_orders, mode, limit, processed, summaries,
                 attempted, dropped, chosen, items, bins, errlog, extraVars, result>>

StreamReturn ==
  /\ result' = [total_orders |-> processed, processed_orders |-> processed,
                total_summaries |-> Len(summaries)]
  /\ pc' = "done"
  /\ UNCHANGED <<aggVars, coordVars, orders, sizes, max_orders, mode, limit, processed, pulled, summaries,
                 attempted, dropped, chosen, items, bins, errlog, extraVars>>

\* line 87: the source is exhausted
StreamExhausted ==
  /\ pc = "stream_for" /\ pulled >= Len(orders)
  /\ StreamReturn

\* lines 88-89: the cap is reached, break
StreamBreak ==
  /\ pc = "stream_body" /\ limit.has /\ processed >= limit.v
  /\ StreamReturn

\* the body with the counter advanced only when the summary was built
StreamProcess_CountSummaries ==
  /\ pc = "stream_body" /\ ~(limit.has /\ processed >= limit.v)
  /\ LET index == processed
         built == build_packing_summary_for_single(orders[pulled], sizes, index)
     IN /\ attempted' = Append(attempted, index)
        /\ summaries' = IF built.raised THEN summaries
                        ELSE Append(summaries, built.summary)
        /\ dropped' = IF built.raised THEN dropped \cup {index} ELSE dropped
        /\ processed' = IF built.raised THEN processed ELSE processed + 1
  /\ pc' = "stream_for"
  /\ UNCHANGED <<aggVars, coordVars, orders, sizes, max_orders, mode, limit, pulled, chosen, items, bins, errlog, extraVars, result>>

\* lines 90-105: the order just taken is processed
StreamProcess ==
  /\ pc = "stream_body" /\ ~(limit.has /\ processed >= limit.v)
  /\ LET index == processed
         built == build_packing_summary_for_single(orders[pulled], sizes, index)
     IN /\ attempted' = Append(attempted, index)
        /\ summaries' = IF built.raised THEN summaries
                        ELSE Append(summaries, built.summary)
        /\ dropped' = IF built.raised THEN dropped \cup {index} ELSE dropped
        /\ processed' = processed + 1
  /\ pc' = "stream_for"
  /\ UNCHANGED <<aggVars, coordVars, orders, sizes, max_orders, mode, limit, pulled, chosen, items, bins, errlog, extraVars, result>>


\* BinUsageStatisticsService.perform, line 21, on the summaries and the orders
AggLookup ==
  /\ pc = "done"
  /\ order_lookup' = create_order_lookup(orders)
  /\ pc' = IF create_order_lookup(orders).raised THEN "agg_raised" ELSE "agg_lookup"
  /\ UNCHANGED <<coordVars, orders, sizes, max_orders, mode, limit, processed, pulled,
                 summaries, attempted, dropped, chosen, items, bins, errlog, extraVars, result, bin_stats, enhanced, runs, prev>>

\* line 22 with a bin_stats that outlives the call: the entries of the call
\* before are counted on
AggAnalyze_Accumulating ==
  /\ pc = "agg_lookup"
  /\ bin_stats' = analyze_from(summaries, 1, order_lookup, bin_stats)
  /\ pc' = "agg_analyzed"
  /\ UNCHANGED <<coordVars, orders, sizes, max_orders, mode, limit, processed, pulled,
                 summaries, attempted, dropped, chosen, items, bins, errlog, extraVars, result, order_lookup, enhanced, runs, prev>>

\* line 22
AggAnalyze ==
  /\ pc = "agg_lookup"
  /\ bin_stats' = analyze_bin_usage(summaries, order_lookup)
  /\ pc' = "agg_analyzed"
  /\ UNCHANGED <<coordVars, orders, sizes, max_orders, mode, limit, processed, pulled,
                 summaries, attempted, dropped, chosen, items, bins, errlog, extraVars, result, order_lookup, enhanced, runs, prev>>

\* lines 23-24
AggEnhance ==
  /\ pc = "agg_analyzed"
  /\ enhanced' = create_enhanced_statistics(bin_stats).list
  /\ pc' = IF create_enhanced_statistics(bin_stats).raised THEN "agg_raised"
           ELSE "agg_done"
  /\ UNCHANGED <<coordVars, orders, sizes, max_orders, mode, limit, processed, pulled,
                 summaries, attempted, dropped, chosen, items, bins, errlog, extraVars, result, order_lookup, bin_stats, runs, prev>>

Next ==
  \/ BatchStart \/ BatchStep \/ BatchDone
  \/ StreamStart \/ StreamNext \/ StreamExhausted \/ StreamBreak \/ StreamProcess
  \/ AggLookup \/ AggAnalyze \/ AggEnhance

Spec == Init /\ [][Next]_vars

\* ------------------------------ the Usage Aggregator on any summaries list
InitAgg ==
  /\ summaries \in {[k \in 1..Len(tpl) |-> [tpl[k] EXCEPT !.order_index = k - 1]] :
                       tpl \in SeqsUpTo(SummaryPool, MaxSummaries)}
  /\ orders \in AggOrdersPool
  /\ sizes = <<>>
  /\ max_orders = JNone
  /\ mode = "aggregate"
  /\ pc = "done"
  /\ limit = [has |-> FALSE, v |-> 0]
  /\ processed = 0
  /\ pulled = 0
  /\ attempted = <<>>
  /\ dropped = {}
  /\ chosen = NoBin
  /\ items = NoItems
  /\ bins = <<>>
  /\ errlog = <<>>
  /\ ExtraIdle
  /\ result = NoResult
  /\ AggIdle
  /\ CoordIdle

\* perform is called once more on the same singleton with the same
\* arguments; the locals of the call before are left behind
AggAgain ==
  /\ pc \in {"agg_done", "agg_raised"} /\ runs = 0
  /\ prev' = [raised |-> pc = "agg_raised", list |-> enhanced]
  /\ runs' = 1
  /\ pc' = "done"
  /\ UNCHANGED <<coordVars, orders, sizes, max_orders, mode, limit, processed, pulled,
                 summaries, attempted, dropped, chosen, items, bins, errlog, extraVars, result, order_lookup, bin_stats,
                 enhanced>>

NextAgg == AggLookup \/ AggAnalyze \/ AggEnhance \/ AggAgain

SpecAgg == InitAgg /\ [][NextAgg]_vars

\* ------------------------------------------------- Category Coordinator
\* BinPackagePipeline.execute with its three worker threads.  What a worker
\* computes is not looked at here, only whether each of its steps raises:
\* a file is "absent", "stale" (left by an earlier run) or "fresh" (written
\* in this run), a CSV is "from_stale" or "from_fresh" after the statistics
\* file it was built from.
\* no service has been called
DataStill ==
  /\ orders = <<>>
  /\ sizes = <<>>
  /\ max_orders = JNone
  /\ mode = "coordinate"
  /\ pc = "idle"
  /\ limit = [has |-> FALSE, v |-> 0]
  /\ processed = 0
  /\ pulled = 0
  /\ summaries = <<>>
  /\ attempted = <<>>
  /\ dropped = {}
  /\ chosen = NoBin
  /\ items = NoItems
  /\ bins = <<>>
  /\ errlog = <<>>
  /\ result = NoResult
  /\ AggIdle

DataIdle == DataStill /\ ExtraIdle

dataVars == <<orders, sizes, max_orders, mode, pc, limit, processed, pulled, summaries,
              attempted, dropped, chosen, items, bins, errlog, extraVars, result, aggVars>>
dataVars_NoExtra == <<orders, sizes, max_orders, mode, pc, limit, processed, pulled, summaries,
                      attempted, dropped, chosen, items, bins, errlog, result, aggVars>>

InitCoord ==
  /\ DataIdle
  /\ cpc = "spawn"
  /\ ci = 1
  /\ wpc = [t \in TypeSet |-> "idle"]
  /\ wfault = [t \in TypeSet |-> "none"]
  /\ statsFile \in [TypeSet -> {"absent", "stale"}]
  /\ csvFile = [t \in TypeSet |-> IF statsFile[t] = "stale" THEN "from_stale" ELSE "absent"]
  /\ uploadFailed = {}

\* _run_types_parallel, lines 70-73: the thread of the next category starts
Spawn ==
  /\ cpc = "spawn"
  /\ wpc' = [wpc EXCEPT ![Types[ci]] = "load"]
  /\ IF ci = Len(Types) THEN cpc' = "join" /\ ci' = 1
     ELSE cpc' = cpc /\ ci' = ci + 1
  /\ UNCHANGED <<dataVars, wfault, statsFile, csvFile, uploadFailed>>

\* the join that returns without waiting for its thread
Join_NoWait ==
  /\ cpc = "join"
  /\ IF ci = Len(Types) THEN cpc' = "export" /\ ci' = 1
     ELSE cpc' = cpc /\ ci' = ci + 1
  /\ UNCHANGED <<dataVars, wpc, wfault, statsFile, csvFile, uploadFailed>>

\* lines 75-76: t.join() returns once the thread has ended
Join ==
  /\ cpc = "join"
  /\ wpc[Types[ci]] = "finished"
  /\ IF ci = Len(Types) THEN cpc' = "export" /\ ci' = 1
     ELSE cpc' = cpc /\ ci' = ci + 1
  /\ UNCHANGED <<dataVars, wpc, wfault, statsFile, csvFile, uploadFailed>>

\* _process_type, lines 40-41, under the try of _safe_process_type: the
\* category's orders and the catalog are read, or the read raises
WorkerLoad(t) ==
  /\ wpc[t] = "load"
  /\ \E ok \in BOOLEAN :
       /\ wpc' = [wpc EXCEPT ![t] = IF ok THEN "compute" ELSE "finished"]
       /\ wfault' = [wfault EXCEPT ![t] = IF ok THEN @ ELSE "load"]
  /\ UNCHANGED <<dataVars, cpc, ci, statsFile, csvFile, uploadFailed>>

\* lines 44-47: packing and usage aggregation, or one of them raises
WorkerCompute(t) ==
  /\ wpc[t] = "compute"
  /\ \E ok \in BOOLEAN :
       /\ wpc' = [wpc EXCEPT ![t] = IF ok THEN "upload" ELSE "finished"]
       /\ wfault' = [wfault EXCEPT ![t] = IF ok THEN @ ELSE "compute"]
  /\ UNCHANGED <<dataVars, cpc, ci, statsFile, csvFile, uploadFailed>>

\* lines 51-52 and 57-58: the statistics go to the notification sink; when
\* the upload raises, the except clause is entered and line 53 is not run
WorkerUpload(t) ==
  /\ wpc[t] = "upload"
  /\ \E ok \in BOOLEAN :
       /\ wpc' = [wpc EXCEPT ![t] = IF ok THEN "write" ELSE "finished"]
       /\ uploadFailed' = IF ok THEN uploadFailed ELSE uploadFailed \cup {<<t, "json">>}
  /\ UNCHANGED <<dataVars, cpc, ci, wfault, statsFile, csvFile>>

\* lines 53-56: the statistics are written to the result sink
WorkerWrite(t) ==
  /\ wpc[t] = "write"
  /\ statsFile' = [statsFile EXCEPT ![t] = "fresh"]
  /\ wpc' = [wpc EXCEPT ![t] = "finished"]
  /\ UNCHANGED <<dataVars, cpc, ci, wfault, csvFile, uploadFailed>>

\* execute, lines 19-31: the report of the next category; get_json raises
\* out of execute when the statistics file does not exist
Export ==
  /\ cpc = "export"
  /\ LET typ == Types[ci] IN
     IF statsFile[typ] = "absent"
     THEN /\ cpc' = "raised"
          /\ UNCHANGED <<ci, csvFile, uploadFailed>>
     ELSE /\ csvFile' = [csvFile EXCEPT ![typ] =
                           IF statsFile[typ] = "fresh" THEN "from_fresh" ELSE "from_stale"]
          /\ \E ok \in BOOLEAN :
               uploadFailed' = IF ok THEN uploadFailed
                               ELSE uploadFailed \cup {<<typ, "csv">>}
          /\ IF ci = Len(Types) THEN cpc' = "done" /\ ci' = ci
             ELSE cpc' = cpc /\ ci' = ci + 1
  /\ UNCHANGED <<dataVars, wpc, wfault, statsFile>>

NextCoord ==
  \/ Spawn \/ Join \/ Export
  \/ \E t \in TypeSet : WorkerLoad(t) \/ WorkerCompute(t) \/ WorkerUpload(t) \/ WorkerWrite(t)

SpecCoord == InitCoord /\ [][NextCoord]_vars

\* ------------------------------------------------------- Report Joiner
\* A CSV cell is a record: s = "" is the empty string, s = "num" the number
\* n written by _to_float_str, s = "inf" the text "inf", s = "text" a text.
Empty == [s |-> "", n |-> 0, text |-> ""]
Text(x) == [s |-> "text", n |-> 0, text |-> x]

\* _to_float_str(v)
ToFloatStr(v) ==
  CASE v.t = "none" -> Empty
    [] v.t = "str" -> Empty
    [] v.t = "inf" -> [s |-> "inf", n |-> 0, text |-> ""]
    [] OTHER -> [s |-> "num", n |-> v.v, text |-> ""]

\* str(s.get("url") or "").strip()
UrlKey(u) == IF u = None THEN "" ELSE u

\* url_to_size.get(url) or {}: the last record of the catalog with the key;
\* [has |-> FALSE] stands for {}
SizeFor(u, recs) ==
  LET match == {i \in 1..Len(recs) : UrlKey(recs[i].url) # "" /\ UrlKey(recs[i].url) = u}
  IN IF match = {} THEN [has |-> FALSE, size |-> Size(None, None, JNone, JNone, JNone)]
     ELSE [has |-> TRUE, size |-> recs[CHOOSE i \in match : \A j \in match : j <= i]]

\* lines 57-96: the row of one statistic.  The records of the model carry
\* url, size_cm, length, width, height; the keys they do not carry
\* (packageId, inner_length, empty_weight, status, ...) give empty cells.
CsvRow(row, recs) ==
  LET found == SizeFor(UrlKey(row.url), recs)
      size == found.size
  IN [package_id |-> Empty,
      url |-> UrlKey(row.url),
      title |-> IF found.has /\ size.size_cm # None THEN Text(size.size_cm) ELSE Empty,
      typ_name |-> "bin",
      outer_l |-> IF found.has THEN ToFloatStr(size.length) ELSE Empty,
      outer_w |-> IF found.has THEN ToFloatStr(size.width) ELSE Empty,
      outer_h |-> IF found.has THEN ToFloatStr(size.height) ELSE Empty,
      inner_l |-> Empty, inner_w |-> Empty, inner_h |-> Empty,
      max_weight |-> Empty, empty_weight |-> Empty, cost |-> Empty, status |-> Empty,
      order_count |-> row.usage_count]

\* the rows of the statistics that have a catalog record only (an inner join)
CsvRows_MatchedOnly(stats, recs) ==
  LET kept == SelectSeq(stats, LAMBDA r : SizeFor(UrlKey(r.url), recs).has)
  IN [k \in 1..Len(kept) |-> CsvRow(kept[k], recs)]

\* lines 54-96: one row per statistic, in the order of the list
CsvRows(stats, recs) == [k \in 1..Len(stats) |-> CsvRow(stats[k], recs)]

\* a UsageStatistic as it is read back from the statistics file
Stat(u, n) == [EnhancedItem(DefaultStats) EXCEPT !.url = u, !.usage_count = n]

StatPool == {Stat("/b1", 2), Stat("/b2", 1), Stat("/b3", 1), Stat("/zz", 3),
             Stat("/b6", 1), Stat("/b5", 2)}

InitCsv ==
  /\ orders = <<>>
  /\ sizes \in CatalogPool
  /\ max_orders = JNone
  /\ mode = "export"
  /\ pc = "export"
  /\ limit = [has |-> FALSE, v |-> 0]
  /\ processed = 0
  /\ pulled = 0
  /\ summaries = <<>>
  /\ attempted = <<>>
  /\ dropped = {}
  /\ chosen = NoBin
  /\ items = NoItems
  /\ bins = <<>>
  /\ errlog = <<>>
  /\ ExtraIdle
  /\ result = NoResult
  /\ order_lookup = NoLookup
  /\ bin_stats = <<>>
  /\ enhanced \in SeqsUpTo(StatPool, MaxStats)
  /\ runs = 0
  /\ prev = [raised |-> FALSE, list |-> <<>>]
  /\ CoordIdle

\* BinUsageCsvExportService.perform on the statistics and the catalog
ExportCsv ==
  /\ pc = "export"
  /\ csv' = CsvRows(enhanced, sizes)
  /\ pc' = "exported"
  /\ UNCHANGED <<aggVars, coordVars, orders, sizes, max_orders, mode, limit, processed, pulled, summaries,
                 attempted, dropped, chosen, items, bins, errlog, result, singVars, batch_out>>

NextCsv == ExportCsv

SpecCsv == InitCsv /\ [][NextCsv]_vars

\* ----------------------------- perform, then perform_stream on the same
\* the list, the catalog and the cap given to perform are given to
\* perform_stream once perform has returned
InitPair ==
  /\ Init
  /\ mode = "batch"

Handover ==
  /\ pc = "done" /\ mode = "batch" /\ ~batch_out.has
  /\ batch_out' = [has |-> TRUE, summaries |-> summaries,
                processed_orders |-> result.processed_orders,
                total_summaries |-> result.total_summaries]
  /\ mode' = "stream"
  /\ pc' = "start"
  /\ limit' = [has |-> FALSE, v |-> 0]
  /\ processed' = 0
  /\ pulled' = 0
  /\ summaries' = <<>>
  /\ attempted' = <<>>
  /\ dropped' = {}
  /\ result' = NoResult
  /\ UNCHANGED <<aggVars, coordVars, orders, sizes, max_orders, chosen, items, bins,
                 errlog, csv, singVars>>

NextPair ==
  \/ BatchStart \/ BatchStep \/ BatchDone
  \/ Handover
  \/ StreamStart \/ StreamNext \/ StreamExhausted \/ StreamBreak \/ StreamProcess

SpecPair == InitPair /\ [][NextPair]_vars

\* ------------------------------------------- Singleton under the workers
\* the three worker threads of _run_types_parallel are started; each makes
\* its constructions one after the other
InitSing ==
  /\ DataStill /\ CoordIdle
  /\ csv = <<>>
  /\ batch_out = NoBatchOut
  /\ instances = [c \in Classes |-> 0]
  /\ spc = [t \in TypeSet |-> "check"]
  /\ scls = [t \in TypeSet |-> 1]
  /\ returned = [c \in Classes |-> {}]
  /\ allocated = 0
  /\ wrote = {}
  /\ readers = {}

ClassOf(t) == Constructions[scls[t]]

\* if cls not in cls._instances:
SingletonCheck(t) ==
  /\ spc[t] = "check"
  /\ scls[t] <= Made
  /\ spc' = [spc EXCEPT ![t] = IF instances[ClassOf(t)] = 0 THEN "store" ELSE "return"]
  /\ readers' = readers \cup {t}
  /\ UNCHANGED <<dataVars_NoExtra, coordVars, csv, batch_out, instances, scls, returned, allocated, wrote>>

\* cls._instances[cls] = super().__new__(cls)
SingletonStore(t) ==
  /\ spc[t] = "store"
  /\ allocated' = allocated + 1
  /\ instances' = [instances EXCEPT ![ClassOf(t)] = allocated + 1]
  /\ wrote' = wrote \cup {t}
  /\ spc' = [spc EXCEPT ![t] = "return"]
  /\ UNCHANGED <<dataVars_NoExtra, coordVars, csv, batch_out, scls, returned, readers>>

\* return cls._instances[cls]; the worker goes on to its next construction
SingletonReturn(t) ==
  /\ spc[t] = "return"
  /\ returned' = [returned EXCEPT ![ClassOf(t)] = @ \cup {instances[ClassOf(t)]}]
  /\ readers' = readers \cup {t}
  /\ scls' = [scls EXCEPT ![t] = @ + 1]
  /\ spc' = [spc EXCEPT ![t] = IF scls[t] + 1 <= Made THEN "check" ELSE "done"]
  /\ UNCHANGED <<dataVars_NoExtra, coordVars, csv, batch_out, instances, allocated, wrote>>

NextSing ==
  \E t \in TypeSet : SingletonCheck(t) \/ SingletonStore(t) \/ SingletonReturn(t)

SpecSing == InitSing /\ [][NextSing]_vars

\* ================================================================ claims
Selected == pc \in {"selected_items", "selected_index"}
SelItems == build_items_from_order(orders[1]).items
ValidIdx == {i \in 1..Len(sizes) : ValidSize(sizes[i])}
\* the packer places every item of the order in the container of record i
Admits(i) == FullFit(SelItems, MakeBin(sizes[i], i))
RecVolume(i) == BinVolume(MakeBin(sizes[i], i))

\* C1: for a non-empty item set the selector returns the first container, in
\* ascending volume with equal volumes in catalog order, that the packer fills
\* with every item: no valid container of smaller volume, and none of equal
\* volume earlier in the catalog, admits the items; it returns none only when
\* no valid container admits them.
C1_FirstFullFitInVolumeOrder ==
  (Selected /\ SelItems # <<>>) =>
     IF chosen.found
     THEN /\ chosen.bin.idx \in ValidIdx
          /\ chosen.bin = MakeBin(sizes[chosen.bin.idx], chosen.bin.idx)
          /\ Admits(chosen.bin.idx)
          /\ \A j \in ValidIdx \ {chosen.bin.idx} :
               Admits(j) =>
                 \/ RecVolume(j) > RecVolume(chosen.bin.idx)
                 \/ (RecVolume(j) = RecVolume(chosen.bin.idx) /\ j > chosen.bin.idx)
     ELSE \A j \in ValidIdx : ~Admits(j)

\* a container is chosen although a smaller valid one exists (it does not
\* admit the items) and a later one of the same volume admits them too
C1_Witness ==
  /\ Selected /\ chosen.found
  /\ \E j \in ValidIdx : RecVolume(j) < RecVolume(chosen.bin.idx) /\ ~Admits(j)
  /\ \E k \in ValidIdx : /\ k > chosen.bin.idx
                         /\ RecVolume(k) = RecVolume(chosen.bin.idx)
                         /\ Admits(k)

\* the number of orders perform works on: min(cap, len), the whole list
\* without a usable cap
BatchCount ==
  IF max_orders.t \in {"num", "numstr"}
  THEN Max2(0, Min2(max_orders.v, Len(orders)))
  ELSE Len(orders)
SummaryRaises(i) == build_items_from_order(orders[i + 1]).raised
HasEntry(i) == \E k \in 1..Len(summaries) : summaries[k].order_index = i

\* C2: in batch mode an order whose summary raises leaves no entry in
\* summaries, the call still returns, and every other order below the cap,
\* the later ones included, was attempted and has its entry.
C2_BatchFaultIsolated ==
  (mode = "batch" /\ pc = "done") =>
     \A i \in 0..(BatchCount - 1) :
        /\ \E a \in 1..Len(attempted) : attempted[a] = i
        /\ SummaryRaises(i) => ~HasEntry(i)
        /\ ~SummaryRaises(i) => HasEntry(i)

C2_Witness ==
  /\ mode = "batch" /\ pc = "done"
  /\ \E i, j \in 0..(BatchCount - 1) :
       i < j /\ SummaryRaises(i) /\ ~HasEntry(i) /\ HasEntry(j)

\* C3: in streaming mode with cap c >= 0 exactly min(c, orders supplied)
\* orders are attempted, a dropped attempt counts toward the cap, and
\* processed_orders is the number of attempts, not of summaries.
C3_StreamCapCountsAttempts ==
  (mode = "stream" /\ pc = "done" /\ max_orders.t = "num" /\ max_orders.v >= 0) =>
     /\ Len(attempted) = Min2(max_orders.v, Len(orders))
     /\ result.processed_orders = Len(attempted)
     /\ result.total_summaries = Len(attempted) - Cardinality(dropped)
     /\ \A a \in 1..Len(attempted) : attempted[a] = a - 1

C3_Witness ==
  /\ mode = "stream" /\ pc = "done" /\ max_orders.t = "num"
  /\ max_orders.v > 0 /\ max_orders.v < Len(orders)
  /\ dropped # {}
  /\ Len(attempted) = max_orders.v
  /\ result.total_summaries < result.processed_orders

\* the PackingResults that reference key u with a non-null fit
Referencing(u) == {k \in 1..Len(summaries) : summaries[k].has_bin /\ summaries[k].bin.url = u}
FirstSeen(u) == MinOf(Referencing(u))

\* C8: for every container key of the aggregator's output, usage_count is the
\* number of input PackingResults with a non-null fit and that key; a key
\* has one entry.
C8_UsageCountCountsReferences ==
  pc = "agg_done" =>
     /\ \A i \in 1..Len(enhanced) :
          enhanced[i].usage_count = Cardinality(Referencing(enhanced[i].url))
     /\ \A i, j \in 1..Len(enhanced) : enhanced[i].url = enhanced[j].url => i = j

C8_Witness ==
  /\ pc = "agg_done"
  /\ \E i \in 1..Len(enhanced) : enhanced[i].usage_count >= 2
  /\ \E k \in 1..Len(summaries) : ~summaries[k].has_bin
  /\ \E k \in 1..Len(summaries) : summaries[k].has_bin /\ summaries[k].bin.url = None

\* C9: the name, length, width, height and volume recorded for a container
\* key are those of the first PackingResult that references the key.
C9_FirstSeenMetadataKept ==
  pc = "agg_done" =>
     \A i \in 1..Len(enhanced) :
        LET first == summaries[FirstSeen(enhanced[i].url)].bin
        IN /\ enhanced[i].name = first.name
           /\ enhanced[i].length = first.length
           /\ enhanced[i].width = first.width
           /\ enhanced[i].height = first.height
           /\ enhanced[i].volume = first.volume

\* C10: the aggregator's list is in descending usage_count, and containers
\* with equal usage_count are in the order their keys were first met in the
\* PackingResult list.
C10_SortedByUsageStable ==
  pc = "agg_done" =>
     \A i, j \in 1..Len(enhanced) :
        i < j =>
          /\ enhanced[i].usage_count >= enhanced[j].usage_count
          /\ enhanced[i].usage_count = enhanced[j].usage_count
               => FirstSeen(enhanced[i].url) < FirstSeen(enhanced[j].url)

\* three containers: the most used one was met last, the other two tie
C10_Witness ==
  /\ pc = "agg_done" /\ Len(enhanced) = 3
  /\ enhanced[1].usage_count > enhanced[2].usage_count
  /\ enhanced[2].usage_count = enhanced[3].usage_count
  /\ FirstSeen(enhanced[1].url) > FirstSeen(enhanced[3].url)

\* C4: a category whose pipeline failed does not abort its siblings: when
\* the coordinator has ended and no upload failed, every category whose
\* worker did not fail has its statistics and its CSV of this run persisted.
C4_SiblingsUnaffected ==
  (cpc \in {"done", "raised"} /\ uploadFailed = {}) =>
     \A t \in TypeSet :
        wfault[t] = "none" => statsFile[t] = "fresh" /\ csvFile[t] = "from_fresh"

Exporting == cpc \in {"export", "done", "raised"}

\* C5: the coordinator starts one worker per category and neither begins
\* the export nor returns before every worker has finished, failed or not.
C5_JoinBeforeExport ==
  /\ cpc # "spawn" => \A t \in TypeSet : wpc[t] # "idle"
  /\ cpc = "spawn" => \A k \in 1..Len(Types) : (wpc[Types[k]] # "idle") = (k < ci)
  /\ Exporting => \A t \in TypeSet : wpc[t] = "finished"

C5_Witness ==
  /\ cpc = "export"
  /\ \E t \in TypeSet : wfault[t] # "none"
  /\ \E t \in TypeSet : wfault[t] = "none" /\ statsFile[t] = "fresh"

\* C6: a delivery failure of the notification sink does not change the
\* outcome: a worker that computed its statistics has persisted them when it
\* ends.
C6_DeliveryFailureHarmless ==
  \A t \in TypeSet :
     (wpc[t] = "finished" /\ wfault[t] = "none") => statsFile[t] = "fresh"

\* C7: a category is streamed without a cap and the only defects of its
\* orders are malformed or missing fields of product lines: the usage
\* aggregation of the category does not raise to its caller.
C7_MalformedLineNeverRaises ==
  (/\ mode = "stream" /\ max_orders = JNone
   /\ \A k \in 1..Len(orders) : orders[k].isdict /\ orders[k].pkind = "list") =>
     pc # "agg_raised"

\* C11: the second run of the aggregator on the same PackingResults and
\* orders ends as the first did, with the same list: nothing is carried from
\* one run to the next.
C11_SecondRunSameList ==
  (runs = 1 /\ pc \in {"agg_done", "agg_raised"}) =>
     /\ enhanced = prev.list
     /\ (pc = "agg_raised") = prev.raised

\* both runs returned a list with a container used twice
C11_Witness ==
  /\ runs = 1 /\ pc = "agg_done"
  /\ \E i \in 1..Len(enhanced) : enhanced[i].usage_count >= 2 /\ enhanced[i].has_totals

Summarized == pc \in {"summarized_single", "summarized_order"}

\* C12: in every PackingResult with a non-null fit, the fitted-item count of
\* the fit is the number of Items expanded from the order.
C12_FittedCountIsItemCount ==
  Summarized =>
     \A k \in 1..Len(summaries) :
        summaries[k].has_bin => summaries[k].bin.fitted_items = Len(SelItems)

\* an order of several items got a container although a smaller valid
\* container takes only some of them
C12_Witness ==
  /\ Summarized /\ Len(summaries) = 1 /\ summaries[1].has_bin
  /\ Len(SelItems) >= 2 /\ summaries[1].bin.fitted_items = Len(SelItems)
  /\ \E j \in ValidIdx :
       /\ ~PackRaises(SelItems, MakeBin(sizes[j], j))
       /\ PackFitted(SelItems, MakeBin(sizes[j], j)) \in 1..(Len(SelItems) - 1)

\* the Item Expander returns an empty item set for the order at index i
EmptyItemSet(i) ==
  /\ ~build_items_from_order(orders[i + 1]).raised
  /\ build_items_from_order(orders[i + 1]).items = <<>>
Attempted == {attempted[a] : a \in 1..Len(attempted)}

\* C13: every attempted order whose item set is empty (no product lines, all
\* lines dropped, a record that is no order) has its PackingResult in
\* summaries, with a null fit, and caused no error.
C13_EmptyItemSetNullFit ==
  (mode \in {"batch", "stream"} /\ pc = "done") =>
     \A i \in Attempted :
        EmptyItemSet(i) =>
           /\ i \notin dropped
           /\ \E k \in 1..Len(summaries) :
                summaries[k].order_index = i /\ ~summaries[k].has_bin

\* a stream of a record that is no order, an order without product lines and
\* an order whose only line was dropped: three null fits
C13_Witness ==
  /\ mode = "stream" /\ pc = "done" /\ Len(summaries) = 3
  /\ \E i, j, k \in Attempted :
       /\ ~orders[i + 1].isdict
       /\ orders[j + 1].isdict /\ ProductsOf(orders[j + 1]) = <<>>
       /\ orders[k + 1].isdict /\ ProductsOf(orders[k + 1]) # <<>> /\ EmptyItemSet(k)
  /\ \A k \in 1..3 : ~summaries[k].has_bin

\* the packing attempt on the container of record j raises
AttemptRaises(j) == PackRaises(SelItems, MakeBin(sizes[j], j))
\* record k comes after record j in the order of the candidates
Later(j, k) ==
  \/ RecVolume(k) > RecVolume(j)
  \/ (RecVolume(k) = RecVolume(j) /\ k > j)

\* C14: a candidate whose packing attempt raises is passed over as not
\* fitting: the selection does not end with the exception, it never returns
\* that candidate, a later candidate that takes every item is still found,
\* and the order gets its PackingResult.
C14_CandidateFaultSkipped ==
  /\ (Selected /\ SelItems # <<>>) =>
        /\ ~chosen.raised
        /\ \A j \in ValidIdx :
             AttemptRaises(j) =>
               /\ chosen.found => chosen.bin.idx # j
               /\ (\E k \in ValidIdx : Later(j, k) /\ Admits(k)) => chosen.found
  /\ (Summarized /\ ~build_items_from_order(orders[1]).raised) =>
        dropped = {} /\ Len(summaries) = 1

\* the attempt on a smaller candidate raised and a later one was chosen
C14_Witness ==
  /\ pc = "selected_items" /\ chosen.found
  /\ \E j \in ValidIdx : AttemptRaises(j) /\ Later(j, chosen.bin.idx)

\* C15: batch mode with cap c attempts the indices 0 .. min(c, len) - 1 and
\* no other, in increasing order (none for a negative cap, the whole list
\* without a cap), and the order_index of a PackingResult is the position of
\* its order in the input list.
C15_BatchIndexRange ==
  (mode = "batch" /\ pc = "done" /\ max_orders.t \in {"num", "none"}) =>
     LET n == IF max_orders.t = "none" THEN Len(orders)
              ELSE IF max_orders.v < 0 THEN 0
              ELSE Min2(max_orders.v, Len(orders))
     IN /\ attempted = [a \in 1..n |-> a - 1]
        /\ result.processed_orders = n
        /\ \A k \in 1..Len(summaries) :
             LET i == summaries[k].order_index
             IN /\ i \in 0..(n - 1)
                /\ summaries[k].order_id =
                     (IF orders[i + 1].isdict THEN orders[i + 1].transaction_id ELSE None)
                /\ summaries[k].products_count = Len(ProductsOf(orders[i + 1]))
        /\ \A k, l \in 1..Len(summaries) :
             k < l => summaries[k].order_index < summaries[l].order_index

\* a cap below the length of the list: the orders beyond it are not touched
C15_Witness ==
  /\ mode = "batch" /\ pc = "done" /\ max_orders.t = "num"
  /\ max_orders.v >= 2 /\ max_orders.v < Len(orders)
  /\ Len(attempted) = max_orders.v
  /\ Len(summaries) = max_orders.v
  /\ summaries[1].order_id # summaries[2].order_id

\* the Items line i of the order must give: max(1, q) for a valid line with
\* quantity q, one without a quantity, none for a dropped line
Lines == ProductsOf(orders[1])
UnitsOf(i) ==
  IF LineOutcome(Lines[i]) # "items" THEN 0
  ELSE IF Lines[i].quantity.t = "none" THEN 1
  ELSE IF ToInt(Lines[i].quantity).v < 1 THEN 1
  ELSE ToInt(Lines[i].quantity).v
\* the Items of the lines before line i
UnitsBefore(i) == SumOver([k \in 1..Len(Lines) |-> UnitsOf(k)], i - 1)

\* C16: a valid product line with quantity q gives max(1, q) identical Items
\* (one when the quantity is absent, zero or negative), and the item set of
\* the order is the Items of its lines one after the other in line order.
C16_QuantityExpansion ==
  (pc = "expanded" /\ ~items.raised) =>
     /\ Len(items.items) = UnitsBefore(Len(Lines) + 1)
     /\ \A i \in 1..Len(Lines) :
          \A k \in 1..UnitsOf(i) :
             items.items[UnitsBefore(i) + k] = LineItem(Lines[i])

\* two valid lines of different Items, with quantities two and three
C16_Witness ==
  /\ pc = "expanded" /\ Len(Lines) = 2
  /\ UnitsOf(1) = 2 /\ UnitsOf(2) = 3 /\ Len(items.items) = 5
  /\ items.items[2] # items.items[3]

\* line i has usable dimensions and weight, and a quantity that int() rejects
QuantityNotCoercible(i) ==
  /\ Lines[i].isdict
  /\ \A x \in {Lines[i].length, Lines[i].width, Lines[i].height, Lines[i].weight} :
       x.t # "none" /\ ToFloat(x).ok
  /\ ToFloat(Lines[i].length).v > 0 /\ ToFloat(Lines[i].width).v > 0
  /\ ToFloat(Lines[i].height).v > 0 /\ ToFloat(Lines[i].weight).v >= 0
  /\ Lines[i].quantity.t # "none" /\ ~ToInt(Lines[i].quantity).ok

\* C17: a product line whose quantity fails integer coercion counts as
\* quantity 1: the expansion returns, and the Item of the line is in the
\* item set of the order.
C17_BadQuantityDefaultsToOne ==
  pc = "expanded" =>
     \A i \in 1..Len(Lines) :
        QuantityNotCoercible(i) =>
           /\ ~items.raised
           /\ \E k \in 1..Len(items.items) : items.items[k] = LineItem(Lines[i])

\* record i lacks one of length, width, height, or has one that is no
\* number or is not positive
Discardable(i) ==
  \E x \in {sizes[i].length, sizes[i].width, sizes[i].height} :
     x.t = "none" \/ ~ToFloat(x).ok \/ ToFloat(x).v <= 0
Kept == {i \in 1..Len(sizes) : ~Discardable(i)}
Logged == {errlog[k] : k \in 1..Len(errlog)}

\* C18: the loader discards the records whose length, width or height is
\* missing, non-numeric or not positive and logs an error for each of them;
\* every other record becomes a container, in the order of the records.
C18_InvalidRecordsDiscardedAndLogged ==
  pc = "loaded" =>
     /\ Len(bins) = Cardinality(Kept)
     /\ \A k \in 1..Len(bins) : bins[k].idx \in Kept
     /\ \A k, l \in 1..Len(bins) : k < l => bins[k].idx < bins[l].idx
     /\ \A i \in 1..Len(sizes) : Discardable(i) => i \in Logged

\* the same without the logging: which records become containers
C18_DiscardedAndOrdered ==
  pc = "loaded" =>
     /\ Len(bins) = Cardinality(Kept)
     /\ \A k \in 1..Len(bins) : bins[k].idx \in Kept
     /\ \A k, l \in 1..Len(bins) : k < l => bins[k].idx < bins[l].idx

\* C19: a container carries the max-weight capacity its catalog record gives,
\* and the default capacity only when the record gives none.
C19_RecordCapacityCarried ==
  pc = "loaded" =>
     \A k \in 1..Len(bins) :
        LET given == sizes[bins[k].idx].max_weight
        IN bins[k].max_weight =
             (IF given.t = "none" THEN DefaultMaxWeight * GramScale
              ELSE ToFloat(given).v * GramScale)

\* the other half of C19, against the capacity the container does carry: the
\* items of an order weigh no more than the capacity of the chosen container
C19_WeightWithinCarriedCapacity ==
  (Selected /\ chosen.found) =>
     SumOver([k \in 1..Len(SelItems) |-> SelItems[k].weight], Len(SelItems))
       <= chosen.bin.max_weight

\* C20: a UsageStatistic carries total_actual_products and total_quantity,
\* the sums over its order details, exactly when one of its order details
\* carries actual_products_count.
C20_TotalsIffDetailCarries ==
  pc = "agg_done" =>
     \A i \in 1..Len(enhanced) :
        LET od == enhanced[i].orders_detail
        IN /\ enhanced[i].has_totals = (\E k \in 1..Len(od) : od[k].has_lookup)
           /\ enhanced[i].has_totals =>
                /\ enhanced[i].total_actual_products =
                     SumOver([k \in 1..Len(od) |->
                                IF od[k].has_lookup THEN od[k].actual_products_count ELSE 0],
                             Len(od))
                /\ enhanced[i].total_quantity =
                     SumOver([k \in 1..Len(od) |->
                                IF od[k].has_lookup THEN od[k].total_quantity ELSE 0],
                             Len(od))

\* the same for the statistics whose details sum to a positive count of
\* actual products
C20_TotalsWhenSumPositive ==
  pc = "agg_done" =>
     \A i \in 1..Len(enhanced) :
        LET od == enhanced[i].orders_detail
            actual == SumOver([k \in 1..Len(od) |->
                                 IF od[k].has_lookup THEN od[k].actual_products_count ELSE 0],
                              Len(od))
        IN /\ enhanced[i].has_totals = (actual > 0)
           /\ enhanced[i].has_totals =>
                /\ enhanced[i].total_actual_products = actual
                /\ enhanced[i].total_quantity =
                     SumOver([k \in 1..Len(od) |->
                                IF od[k].has_lookup THEN od[k].total_quantity ELSE 0],
                             Len(od))

\* the total expanded quantity of an order: max(1, quantity) summed over its
\* product lines, a line without a quantity counting as one
ExpandedQuantity(order) ==
  SumOver([k \in 1..Len(ProductsOf(order)) |->
             LET q == ProductsOf(order)[k].quantity
             IN IF q.t = "none" \/ ~ToInt(q).ok THEN 1 ELSE Max2(1, ToInt(q).v)],
          Len(ProductsOf(order)))
\* the order the lookup entry of id is made from: the last one with the id
LastWithId(id) ==
  orders[CHOOSE k \in 1..Len(orders) :
           /\ orders[k].isdict /\ orders[k].transaction_id = id
           /\ \A j \in (k + 1)..Len(orders) :
                ~(orders[j].isdict /\ orders[j].transaction_id = id)]

\* C21: for every order with an id, the lookup records as total_quantity the
\* total expanded quantity of the order.
C21_LookupTotalIsExpandedQuantity ==
  (pc = "agg_lookup" /\ ~order_lookup.raised) =>
     \A id \in order_lookup.ids :
        order_lookup.at[id].total_quantity = ExpandedQuantity(LastWithId(id))

\* the catalog has a record with the key of statistic k
InCatalog(k) == \E i \in 1..Len(sizes) : sizes[i].url # None /\ sizes[i].url = enhanced[k].url

\* C22: the report has one data row per UsageStatistic, in the order of the
\* list; the row of a statistic whose key is in no catalog record has every
\* catalog-sourced field empty and the statistic's usage_count as order count.
C22_OneRowPerStatistic ==
  pc = "exported" =>
     /\ Len(csv) = Len(enhanced)
     /\ \A k \in 1..Len(csv) :
          /\ csv[k].url = enhanced[k].url
          /\ csv[k].order_count = enhanced[k].usage_count
          /\ ~InCatalog(k) =>
               \A cell \in {csv[k].package_id, csv[k].title, csv[k].outer_l,
                             csv[k].outer_w, csv[k].outer_h, csv[k].inner_l,
                             csv[k].inner_w, csv[k].inner_h, csv[k].empty_weight,
                             csv[k].status} : cell = Empty

\* a statistic without a catalog record between two that have one
C22_Witness ==
  /\ pc = "exported" /\ Len(csv) = 3
  /\ InCatalog(1) /\ ~InCatalog(2) /\ InCatalog(3)
  /\ csv[1].title # Empty /\ csv[1].outer_l # Empty
  /\ csv[2].title = Empty /\ csv[2].order_count = enhanced[2].usage_count

\* C23: the products_count of a summary is the number of raw product lines of
\* its order, the lines that gave no item included.
RawLineCount(order) == IF order.isdict /\ order.pkind = "list" THEN Len(order.products) ELSE 0
DroppedLines(order) ==
  {i \in 1..Len(order.products) : LineOutcome(order.products[i]) = "skip"}
C23_ProductsCountIsRawLines ==
  (Summarized /\ summaries # <<>>) =>
     summaries[1].products_count = RawLineCount(orders[1])
C23_Witness ==
  /\ Summarized /\ summaries # <<>>
  /\ DroppedLines(orders[1]) # {}
  /\ summaries[1].products_count = 2
  /\ Len(build_items_from_order(orders[1]).items) = 1

\* C24: no worker thread writes an object that another worker thread reads or
\* writes.
C24_NoSharedMutableState ==
  \A t \in wrote : (wrote \cup readers) \subseteq {t}

\* C29: all the constructions of a class return one and the same object,
\* however the worker threads interleave in Singleton.__new__.
C29_OneInstancePerClass ==
  \A c \in Classes : Cardinality(returned[c]) <= 1

\* C25: the item of a line has the line's dimensions in centimetres (mm
\* divided by 10, m, meter and metre multiplied by 100, cm as given) and its
\* weight in grams (kg multiplied by 1000, mg divided by 1000, g as given);
\* a tag that is none of these, compared without regard to case, leaves the
\* number as given.
CmOf(v, u) ==
  CASE Lower(u) = "mm" -> (v * LenScale) \div 10
    [] Lower(u) \in {"m", "meter", "metre"} -> v * 100 * LenScale
    [] OTHER -> v * LenScale
GramsOf(v, u) ==
  CASE Lower(u) = "kg" -> v * 1000 * GramScale
    [] Lower(u) = "mg" -> (v * GramScale) \div 1000
    [] OTHER -> v * GramScale
ExpandedOneLine ==
  /\ pc = "expanded" /\ Len(orders[1].products) = 1
  /\ ~items.raised /\ items.items # <<>>
C25_UnitsNormalized ==
  ExpandedOneLine =>
    LET p == orders[1].products[1] IN
    \A k \in 1..Len(items.items) :
       /\ items.items[k].depth = CmOf(p.length.v, p.length_unit)
       /\ items.items[k].width = CmOf(p.width.v, p.length_unit)
       /\ items.items[k].height = CmOf(p.height.v, p.length_unit)
       /\ items.items[k].weight = GramsOf(p.weight.v, p.weight_unit)
C25_Witness ==
  /\ ExpandedOneLine
  /\ orders[1].products[1].length_unit = "m"
  /\ orders[1].products[1].weight_unit = "kg"
  /\ items.items[1].depth = 200 * LenScale
  /\ items.items[1].weight = 2000 * GramScale

\* C26: perform_stream with cap c takes at most c orders from the order
\* source (none with c = 0).
C26_PullsAtMostCap ==
  (mode = "stream" /\ limit.has) => pulled <= limit.v

\* C27: on the same order list, catalog and cap, perform_stream returns the
\* summaries perform returned, entry for entry, and the same processed_orders
\* and total_summaries.
BothDone == pc = "done" /\ mode = "stream" /\ batch_out.has
C27_BatchEqualsStream ==
  BothDone =>
    /\ summaries = batch_out.summaries
    /\ result.processed_orders = batch_out.processed_orders
    /\ result.total_summaries = batch_out.total_summaries
C27_Witness ==
  /\ BothDone
  /\ dropped # {}
  /\ Len(summaries) >= 1
  /\ result.processed_orders < Len(orders)
  /\ \E k \in 1..Len(summaries) : summaries[k].has_bin

\* C28: in the result of either mode, total_summaries is the length of
\* summaries, total_summaries <= processed_orders <= total_orders,
\* processed_orders - total_summaries is the number of orders dropped for a
\* fault, and the order_index values of summaries are strictly increasing.
C28_ResultCounts ==
  pc = "done" =>
    /\ result.total_summaries = Len(summaries)
    /\ result.total_summaries <= result.processed_orders
    /\ result.processed_orders <= result.total_orders
    /\ result.processed_orders - result.total_summaries = Cardinality(dropped)
    /\ \A j, k \in 1..Len(summaries) :
          j < k => summaries[j].order_index < summaries[k].order_index
C28_Witness ==
  /\ pc = "done" /\ mode = "batch"
  /\ Cardinality(dropped) = 1
  /\ Len(summaries) = 2
  /\ result.processed_orders = 3
  /\ summaries[2].order_index = 2

\* C30: the CSV the coordinator writes for a category is built from the
\* statistics the category's worker wrote in this run, never from a
\* statistics file an earlier run left.
CsvWrittenNow(k) == (cpc \in {"export", "raised"} /\ k < ci) \/ cpc = "done"
C30_CsvFromThisRun ==
  \A k \in 1..Len(Types) :
     CsvWrittenNow(k) => csvFile[Types[k]] # "from_stale"

====
